---- MODULE Spec2Model ----
(***************************************************************************)
(* Model of the host <-> WebAssembly marshalling boundary of               *)
(* python-ext-wasm:                                                        *)
(*   - the typed memory views        (src/src/memory_view.rs)              *)
(*   - the export dispatcher         (src/src/instance/exports.rs)         *)
(*   - the Function object / import  (src/packages/api/src/externals/      *)
(*     bridge                          function.rs)                        *)
(* The three parts do not share state; each has its own specification      *)
(* (SpecView, SpecDyn, SpecFunc) over the same variables.                  *)
(***************************************************************************)
EXTENDS Integers, Sequences, FiniteSets, TLC

VARIABLES
    memory,   \* the linear memory: a sequence of bytes (0..255), zero-initialised
    view,     \* the memory view object: [kind, offset] (memory_view.rs:13-14)
    mvOp,     \* the last memory-view method call and what it returned
    nOps,     \* number of memory-view method calls made so far
    dyn,      \* the call_dyn_func activation: position, inputs, locals, result
    fnew,     \* the last Function::new registration and its outcome
    fcall     \* the last Function.__call__ and its outcome

vars == <<memory, view, mvOp, nOps, dyn, fnew, fcall>>

---------------------------------------------------------------------------
(* Bounds of the model *)

PageBytes == 8     \* bytes added by one growth step (a scaled-down wasm page)
MaxPages  == 2     \* the memory holds 1..MaxPages pages
MaxOffset == 2     \* view offsets 0..MaxOffset
MaxIndex  == 6     \* indices 0..MaxIndex are passed to get/set
MaxOps    == 2     \* memory-view method calls per behaviour
MaxParams == 2     \* declared parameters of a function: 0..MaxParams
MaxResults == 2    \* declared results of a function: 0..MaxResults
MaxAnnotations == 3 \* entries of a callable's __annotations__: 0..MaxAnnotations

---------------------------------------------------------------------------
(* Memory views: memory_view.rs *)

\* The six instantiations of memory_view! (lines 46-51).
ViewKinds == {"u8", "i8", "u16", "i16", "u32", "i32"}

\* size_of::<$wasm_type>()
SizeOf(kind) ==
    CASE kind \in {"u8", "i8"}   -> 1
      [] kind \in {"u16", "i16"} -> 2
      [] kind \in {"u32", "i32"} -> 4

IsSigned(kind) == kind \in {"i8", "i16", "i32"}

RECURSIVE Pow256(_)
Pow256(n) == IF n = 0 THEN 1 ELSE 256 * Pow256(n - 1)

\* Values of the element type handed to set(): the extremes of the type and
\* a value whose bytes all differ.  (u32 values stay below 2^31, so that
\* every value read back is a 32-bit signed integer of TLC.)
ElementValues(kind) ==
    CASE kind = "u8"  -> {1, 255}
      [] kind = "i8"  -> {-128, 127}
      [] kind = "u16" -> {258, 65535}
      [] kind = "i16" -> {-32768, 513}
      [] kind = "u32" -> {16909060, 2147483647}
      [] kind = "i32" -> {-2147483647 - 1, 50462976}

\* The little-endian two's complement bytes of v in a cell of w bytes.
EncodeLE(v, w) == [k \in 1..w |-> (v \div Pow256(k - 1)) % 256]

RECURSIVE UnsignedLE(_)
UnsignedLE(bytes) ==
    IF bytes = <<>> THEN 0 ELSE Head(bytes) + 256 * UnsignedLE(Tail(bytes))

\* The value of a cell read as $wasm_type.
DecodeLE(bytes, signed) ==
    LET w   == Len(bytes)
        top == bytes[w]
        low == UnsignedLE(SubSeq(bytes, 1, w - 1))
    IN  IF signed /\ top >= 128
        THEN low + (top - 256) * Pow256(w - 1)
        ELSE low + top * Pow256(w - 1)

\* memory.view::<$wasm_type>().len(): whole cells of the type in the buffer.
ViewLen(mem, kind) == Len(mem) \div SizeOf(kind)

\* The bytes of cell k (0-based) of memory.view::<$wasm_type>().
CellBytes(mem, kind, k) ==
    SubSeq(mem, k * SizeOf(kind) + 1, (k + 1) * SizeOf(kind))

\* length(), lines 16-20.  Slicing [offset..] panics when offset exceeds the
\* number of cells.
length(mem, v) ==
    IF v.offset > ViewLen(mem, v.kind)
    THEN [status |-> "OutOfBounds", ret |-> 0]
    ELSE [status |-> "ok",
          ret    |-> (ViewLen(mem, v.kind) - v.offset) \div SizeOf(v.kind)]

\* The cell addressed by get/set, lines 23-24 and 30-31.
CellIndex(v, index) == v.offset + (index \div SizeOf(v.kind))

\* get(index), lines 22-27.  Indexing the view panics out of range.
get(mem, v, index) ==
    LET cell == CellIndex(v, index)
    IN  IF cell >= ViewLen(mem, v.kind)
        THEN [status |-> "OutOfBounds", ret |-> 0]
        ELSE [status |-> "ok",
              ret    |-> DecodeLE(CellBytes(mem, v.kind, cell), IsSigned(v.kind))]

\* set() as it would be if the index were not divided by the element size
\* before the write, while get() divides it.
setUndivided(mem, v, index, value) ==
    LET cell == v.offset + index
        w    == SizeOf(v.kind)
        enc  == EncodeLE(value, w)
    IN  IF cell >= ViewLen(mem, v.kind)
        THEN [status |-> "OutOfBounds", mem |-> mem]
        ELSE [status |-> "ok",
              mem    |-> [b \in 1..Len(mem) |->
                             IF b > cell * w /\ b <= (cell + 1) * w
                             THEN enc[b - cell * w]
                             ELSE mem[b]]]

\* set(index, value), lines 29-36: the outcome and the memory afterwards.
set(mem, v, index, value) ==
    LET cell == CellIndex(v, index)
        w    == SizeOf(v.kind)
        enc  == EncodeLE(value, w)
    IN  IF cell >= ViewLen(mem, v.kind)
        THEN [status |-> "OutOfBounds", mem |-> mem]
        ELSE [status |-> "ok",
              mem    |-> [b \in 1..Len(mem) |->
                             IF b > cell * w /\ b <= (cell + 1) * w
                             THEN enc[b - cell * w]
                             ELSE mem[b]]]

ZeroBytes(n) == [b \in 1..n |-> 0]

\* What a get() notes of the method call before it: whether that was a set()
\* at the same index, the value it wrote, its outcome, and whether the index
\* was below what length() returned then.
NoSet == [set |-> FALSE, value |-> 0, status |-> "ok", below |-> FALSE]

\* A record of one method call: the call, its outcome, what length()
\* returned and how many bytes the buffer held when it was made, and for a
\* get() the set() it follows.
NoOp == [op |-> "none", index |-> 0, value |-> 0, status |-> "ok", ret |-> 0,
         len |-> [status |-> "ok", ret |-> 0], bytes |-> 0, after |-> NoSet]

\* The view constructors, lines 40-42, over a fresh one-page memory.
InitView ==
    /\ memory = ZeroBytes(PageBytes)
    /\ view \in [kind : ViewKinds, offset : 0..MaxOffset]
    /\ mvOp = NoOp
    /\ nOps = 0

Length ==
    /\ nOps < MaxOps
    /\ mvOp' = [op |-> "length", index |-> 0, value |-> 0,
                status |-> length(memory, view).status,
                ret    |-> length(memory, view).ret,
                len    |-> length(memory, view),
                bytes  |-> Len(memory), after |-> NoSet]
    /\ nOps' = nOps + 1
    /\ UNCHANGED <<memory, view, dyn, fnew, fcall>>

Get ==
    /\ nOps < MaxOps
    /\ \E index \in 0..MaxIndex :
          mvOp' = [op |-> "get", index |-> index, value |-> 0,
                   status |-> get(memory, view, index).status,
                   ret    |-> get(memory, view, index).ret,
                   len    |-> length(memory, view),
                   bytes  |-> Len(memory),
                   after  |-> IF mvOp.op = "set" /\ mvOp.index = index
                              THEN [set    |-> TRUE,
                                    value  |-> mvOp.value,
                                    status |-> mvOp.status,
                                    below  |-> /\ mvOp.len.status = "ok"
                                               /\ mvOp.index < mvOp.len.ret]
                              ELSE NoSet]
    /\ nOps' = nOps + 1
    /\ UNCHANGED <<memory, view, dyn, fnew, fcall>>

Set ==
    /\ nOps < MaxOps
    /\ \E index \in 0..MaxIndex, value \in ElementValues(view.kind) :
          /\ mvOp' = [op |-> "set", index |-> index, value |-> value,
                      status |-> set(memory, view, index, value).status,
                      ret    |-> 0,
                      len    |-> length(memory, view),
                      bytes  |-> Len(memory), after |-> NoSet]
          /\ memory' = set(memory, view, index, value).mem
    /\ nOps' = nOps + 1
    /\ UNCHANGED <<view, dyn, fnew, fcall>>

\* The instance grows its linear memory by one page of zero bytes.
Grow ==
    /\ Len(memory) < MaxPages * PageBytes
    /\ memory' = memory \o ZeroBytes(PageBytes)
    /\ UNCHANGED <<view, mvOp, nOps, dyn, fnew, fcall>>

NextView == Length \/ Get \/ Set \/ Grow

---------------------------------------------------------------------------
(* Values shared by the export dispatcher and the Function object *)

\* wasmer_runtime_core::types::Type (exports.rs:139-145)
Types == {"I32", "I64", "F32", "F64", "V128"}

\* Host objects handed to a call.  A PyLong is described by the narrowest
\* integer type that holds it; "value" is the pre-tagged Value class.
PyObjects ==
    { [kind |-> "long",  size |-> "i32",  ty |-> "-"],
      [kind |-> "long",  size |-> "i64",  ty |-> "-"],
      [kind |-> "float", size |-> "-",    ty |-> "-"],
      [kind |-> "value", size |-> "-",    ty |-> "I64"] }

SeqsUpTo(S, n) == UNION { [1..k -> S] : k \in 0..n }

\* Result types a function of the model declares.
ResultTypes == {"I32", "F64"}

PyNone == [kind |-> "None"]

Ok(v)  == [status |-> "ok", value |-> v]
Err(e) == [status |-> "err", error |-> e]

---------------------------------------------------------------------------
(* The export dispatcher: call_dyn_func, exports.rs:99-169 *)

\* The match on the parameter type, lines 136-147: a pre-tagged Value is
\* cloned as it is; anything else is downcast and extracted.
Coerce(parameter, argument) ==
    IF argument.kind = "value"
    THEN Ok([ty |-> argument.ty, of |-> argument])
    ELSE CASE parameter \in {"I32", "I64", "V128"} ->
                IF argument.kind # "long"
                THEN Err([exc |-> "TypeError"])
                ELSE IF parameter = "I32" /\ argument.size # "i32"
                THEN Err([exc |-> "OverflowError"])
                ELSE Ok([ty |-> parameter, of |-> argument])
           [] parameter \in {"F32", "F64"} ->
                IF argument.kind # "float"
                THEN Err([exc |-> "TypeError"])
                ELSE Ok([ty |-> parameter, of |-> argument])

\* The arity check as it would be with the two counts of the messages
\* exchanged.
ArityCheckSwapped(number_of_parameters, number_of_arguments) ==
    LET diff == number_of_parameters - number_of_arguments
    IN  IF diff > 0
        THEN Err([exc |-> "RuntimeError", msg |-> "Missing", count |-> diff,
                  expect |-> number_of_arguments, given |-> number_of_parameters])
        ELSE IF diff < 0
        THEN Err([exc |-> "RuntimeError", msg |-> "Extra", count |-> -diff,
                  expect |-> number_of_arguments, given |-> number_of_parameters])
        ELSE Ok(TRUE)

\* The arity check, lines 109-130.
ArityCheck(number_of_parameters, number_of_arguments) ==
    LET diff == number_of_parameters - number_of_arguments
    IN  IF diff > 0
        THEN Err([exc |-> "RuntimeError", msg |-> "Missing", count |-> diff,
                  expect |-> number_of_parameters, given |-> number_of_arguments])
        ELSE IF diff < 0
        THEN Err([exc |-> "RuntimeError", msg |-> "Extra", count |-> -diff,
                  expect |-> number_of_parameters, given |-> number_of_arguments])
        ELSE Ok(TRUE)

\* The values a wasm function with the declared results returns: one value
\* of each declared type, told apart by its position.
WasmResults(results) == [k \in 1..Len(results) |-> [ty |-> results[k], of |-> k]]

\* result.to_object(py)
ToObject(wasmValue) == [kind |-> "py", ty |-> wasmValue.ty, of |-> wasmValue.of]

\* Mapping the results to a Python value, lines 157-168.
MapResults(results) ==
    IF results # <<>> THEN ToObject(results[1]) ELSE PyNone

\* What call_dyn_func leaves alone.
notDyn == <<memory, view, mvOp, nOps, fnew, fcall>>

DynIdle == [pc |-> "idle", params |-> <<>>, results |-> <<>>, arguments |-> <<>>,
            function_arguments |-> <<>>, invoked |-> 0, returned |-> <<>>,
            ret |-> Ok(PyNone)]

InitDyn == dyn = DynIdle

\* ExportedFunction.__call__, lines 180-185, enters call_dyn_func.
DynCall ==
    /\ dyn.pc = "idle"
    /\ \E params \in SeqsUpTo(Types, MaxParams),
          results \in SeqsUpTo(ResultTypes, MaxResults),
          arguments \in SeqsUpTo(PyObjects, MaxParams + 1) :
          dyn' = [DynIdle EXCEPT !.pc = "arity", !.params = params,
                                 !.results = results, !.arguments = arguments]
    /\ UNCHANGED notDyn

\* Lines 105-130.
DynArity ==
    /\ dyn.pc = "arity"
    /\ LET check == ArityCheck(Len(dyn.params), Len(dyn.arguments))
       IN  dyn' = IF check.status = "err"
                  THEN [dyn EXCEPT !.pc = "done", !.ret = check]
                  ELSE [dyn EXCEPT !.pc = "coerce"]
    /\ UNCHANGED notDyn

\* The loop as it would be if a failed conversion ended the loop instead of
\* the call (an error that is dropped, not returned with `?`).
DynCoerceDropsError ==
    /\ dyn.pc = "coerce"
    /\ LET i == Len(dyn.function_arguments) + 1
       IN  IF i > Len(dyn.params) \/ i > Len(dyn.arguments)
           THEN dyn' = [dyn EXCEPT !.pc = "invoke"]
           ELSE LET value == Coerce(dyn.params[i], dyn.arguments[i])
                IN  dyn' = IF value.status = "err"
                           THEN [dyn EXCEPT !.pc = "invoke"]
                           ELSE [dyn EXCEPT !.function_arguments =
                                                Append(@, value.value)]
    /\ UNCHANGED notDyn

\* One iteration of the loop of lines 135-150, or its exit.
DynCoerce ==
    /\ dyn.pc = "coerce"
    /\ LET i == Len(dyn.function_arguments) + 1
       IN  IF i > Len(dyn.params) \/ i > Len(dyn.arguments)
           THEN dyn' = [dyn EXCEPT !.pc = "invoke"]
           ELSE LET value == Coerce(dyn.params[i], dyn.arguments[i])
                IN  dyn' = IF value.status = "err"
                           THEN [dyn EXCEPT !.pc = "done", !.ret = value]
                           ELSE [dyn EXCEPT !.function_arguments =
                                                Append(@, value.value)]
    /\ UNCHANGED notDyn

\* function.call(...), lines 153-155.  The runtime rejects arguments whose
\* types are not the declared ones, and the function may trap.
DynInvoke ==
    /\ dyn.pc = "invoke"
    /\ \E trap \in BOOLEAN :
          LET typed == /\ Len(dyn.function_arguments) = Len(dyn.params)
                       /\ \A k \in 1..Len(dyn.params) :
                             dyn.function_arguments[k].ty = dyn.params[k]
          IN  dyn' = IF ~typed
                     THEN [dyn EXCEPT !.pc = "done", !.invoked = @ + 1,
                             !.ret = Err([exc |-> "RuntimeError", msg |-> "Signature"])]
                     ELSE IF trap
                     THEN [dyn EXCEPT !.pc = "done", !.invoked = @ + 1,
                             !.ret = Err([exc |-> "RuntimeError", msg |-> "Trap"])]
                     ELSE [dyn EXCEPT !.pc = "map", !.invoked = @ + 1,
                             !.returned = WasmResults(dyn.results)]
    /\ UNCHANGED notDyn

\* Lines 157-168.
DynReturn ==
    /\ dyn.pc = "map"
    /\ dyn' = [dyn EXCEPT !.pc = "done", !.ret = Ok(MapResults(dyn.returned))]
    /\ UNCHANGED notDyn

\* The caller has the outcome; the activation is over.
DynEnd ==
    /\ dyn.pc = "done"
    /\ dyn' = DynIdle
    /\ UNCHANGED notDyn

NextDyn == DynCall \/ DynArity \/ DynCoerce \/ DynInvoke \/ DynReturn \/ DynEnd

---------------------------------------------------------------------------
(* Function::new, function.rs:78-200: the signature of a host callable *)

\* What annotation_value.to_string() yields for the annotations of the model.
AnnotationTokens ==
    {"i32", "I32", "<class 'int'>", "i64", "I64",
     "f32", "F32", "<class 'float'>", "f64", "F64", "<class 'str'>"}

\* The match on the annotation's string, lines 114-125.
AnnotationType(token) ==
    CASE token \in {"i32", "I32", "<class 'int'>"}   -> Ok("I32")
      [] token \in {"i64", "I64"}                     -> Ok("I64")
      [] token \in {"f32", "F32", "<class 'float'>"} -> Ok("F32")
      [] token \in {"f64", "F64"}                     -> Ok("F64")
      [] OTHER -> Err([exc |-> "RuntimeError", msg |-> "NotSupported",
                       type |-> token])

\* annotation_name.to_string().as_str() == "return", line 128
IsReturn(name) == name.kind = "return"

\* The loop over the annotations, lines 110-133: the first unsupported token
\* ends it.
RECURSIVE InferTypes(_, _, _)
InferTypes(annotations, argument_types, result_types) ==
    IF annotations = <<>>
    THEN Ok([params |-> argument_types, results |-> result_types])
    ELSE LET ty == AnnotationType(Head(annotations).value)
         IN  IF ty.status = "err" THEN ty
             ELSE IF IsReturn(Head(annotations).name)
             THEN InferTypes(Tail(annotations), argument_types,
                             Append(result_types, ty.value))
             ELSE InferTypes(Tail(annotations), Append(argument_types, ty.value),
                             result_types)

\* Function::new up to the signature it registers, lines 84-135.
\* function_type is Option<&FunctionType>; annotations is the callable's
\* __annotations__ attribute, which it may lack.
FunctionNew(callable, function_type, annotations) ==
    IF ~callable
    THEN Err([exc |-> "ValueError", msg |-> "NotCallable"])
    ELSE IF function_type.some
    THEN Ok([params |-> function_type.params, results |-> function_type.results])
    ELSE IF ~annotations.has
    THEN Err([exc |-> "ValueError", msg |-> "NoAnnotations"])
    ELSE InferTypes(annotations.dict, <<>>, <<>>)

\* Names of the annotations of a callable: its parameters and "return".
AnnotationNames ==
    {[kind |-> "return", pos |-> 0]}
        \cup { [kind |-> "param", pos |-> k] : k \in 1..(MaxAnnotations - 1) }

\* The __annotations__ dictionaries of the model: every order of every
\* choice of distinct names, each with a token.
AnnotationDicts ==
    { a \in SeqsUpTo([name : AnnotationNames, value : AnnotationTokens],
                     MaxAnnotations) :
        \A i, j \in 1..Len(a) : i # j => a[i].name # a[j].name }

NoFunctionType == [some |-> FALSE, params |-> <<>>, results |-> <<>>]

FunctionTypes ==
    [some : {TRUE}, params : SeqsUpTo(ResultTypes, 1),
     results : SeqsUpTo(ResultTypes, 1)]

NoAnnotations == [has |-> FALSE, dict |-> <<>>]

NewIdle == [called |-> FALSE, callable |-> TRUE, function_type |-> NoFunctionType,
            annotations |-> NoAnnotations, ret |-> Ok(PyNone)]

InitNew == fnew = NewIdle

\* Function(store, py_function, function_type).  With an explicit signature
\* or a non-callable, the model keeps to annotation dictionaries of at most
\* one entry.
New ==
    /\ ~fnew.called
    /\ \E callable \in BOOLEAN,
          function_type \in {NoFunctionType} \cup FunctionTypes,
          annotations \in {NoAnnotations}
                            \cup [has : {TRUE}, dict : AnnotationDicts] :
          /\ (function_type.some \/ ~callable) => Len(annotations.dict) <= 1
          /\ fnew' = [called |-> TRUE, callable |-> callable,
                      function_type |-> function_type,
                      annotations |-> annotations,
                      ret |-> FunctionNew(callable, function_type, annotations)]
    /\ UNCHANGED <<memory, view, mvOp, nOps, dyn, fcall>>

\* The caller has the Function object or the error.
NewEnd ==
    /\ fnew.called
    /\ fnew' = NewIdle
    /\ UNCHANGED <<memory, view, mvOp, nOps, dyn, fcall>>

NextNew == New \/ NewEnd

---------------------------------------------------------------------------
(* The import bridge and Function.__call__, function.rs:148-229 *)

\* crate::values::to_wasm_value((value, ty)): the value is downcast to the
\* host type of the kind and extracted at its width.
to_wasm_value(value, ty) ==
    CASE ty \in {"I32", "I64", "V128"} ->
            IF value.kind # "long"
            THEN Err([exc |-> "TypeError"])
            ELSE IF ty = "I32" /\ value.size # "i32"
            THEN Err([exc |-> "OverflowError"])
            ELSE Ok([ty |-> ty, of |-> value])
      [] ty \in {"F32", "F64"} ->
            IF value.kind # "float"
            THEN Err([exc |-> "TypeError"])
            ELSE Ok([ty |-> ty, of |-> value])

\* crate::values::to_py_object
to_py_object(wasmValue) == [kind |-> "py", ty |-> wasmValue.ty, of |-> wasmValue.of]

\* zip(...).map(to_wasm_value).collect::<PyResult<_>>(), lines 206-210 and
\* 172-176: the pairs up to the shorter length, ended by the first error.
RECURSIVE ConvertZip(_, _)
ConvertZip(values, types) ==
    IF values = <<>> \/ types = <<>>
    THEN Ok(<<>>)
    ELSE LET first == to_wasm_value(Head(values), Head(types))
         IN  IF first.status = "err" THEN first
             ELSE LET rest == ConvertZip(Tail(values), Tail(types))
                  IN  IF rest.status = "err" THEN rest
                      ELSE Ok(<<first.value>> \o rest.value)

\* wasmer::RuntimeError::new(io::Error::from(error).to_string())
Trap(error) == Err([exc |-> "RuntimeError", msg |-> "Trap", from |-> error])

\* Host objects of the model that a call passes or a callable returns.
CallObjects ==
    { [kind |-> "long",  size |-> "i32", ty |-> "-"],
      [kind |-> "long",  size |-> "i64", ty |-> "-"],
      [kind |-> "float", size |-> "-",   ty |-> "-"] }

ReturnObjects ==
    { [kind |-> "long",  size |-> "i32", ty |-> "-"],
      [kind |-> "float", size |-> "-",   ty |-> "-"] }

\* What the host callable does when called: it raises, or returns None, one
\* object, or a tuple of objects.
Behaviours ==
    { [does |-> "raise"], [does |-> "none"] }
        \cup { [does |-> "single", object |-> o] : o \in ReturnObjects }
        \cup { [does |-> "tuple", objects |-> t] :
                    t \in SeqsUpTo(ReturnObjects, MaxResults) }

\* The closure as it would be if an error raised by the callable were taken
\* for a call that returned nothing.
host_functionSwallows(result_types, behaviour) ==
    IF behaviour.does \in {"raise", "none"}
    THEN Ok(<<>>)
    ELSE IF behaviour.does = "tuple"
    THEN LET converted == ConvertZip(behaviour.objects, result_types)
         IN  IF converted.status = "err" THEN Trap(converted.error) ELSE converted
    ELSE IF result_types # <<>>
    THEN LET converted == to_wasm_value(behaviour.object, result_types[1])
         IN  IF converted.status = "err" THEN Trap(converted.error)
             ELSE Ok(<<converted.value>>)
    ELSE Ok(<<>>)

\* The closure given to Function::new_with_env, lines 152-196: what it
\* returns to the runtime.
host_function(result_types, behaviour) ==
    IF behaviour.does = "raise"
    THEN Trap([exc |-> "PyErr"])
    ELSE IF behaviour.does = "tuple"
    THEN LET converted == ConvertZip(behaviour.objects, result_types)
         IN  IF converted.status = "err" THEN Trap(converted.error) ELSE converted
    ELSE IF behaviour.does # "none" /\ result_types # <<>>
    THEN LET converted == to_wasm_value(behaviour.object, result_types[1])
         IN  IF converted.status = "err" THEN Trap(converted.error)
             ELSE Ok(<<converted.value>>)
    ELSE Ok(<<>>)

\* The host value of the results, lines 218-228.
ResultObject(results) ==
    IF Len(results) = 0 THEN PyNone
    ELSE IF Len(results) = 1 THEN to_py_object(results[1])
    ELSE [kind |-> "tuple", items |-> [k \in 1..Len(results) |-> to_py_object(results[k])]]

\* Function objects: an export of a module ("wasm"), an export whose body
\* calls a host function bound as an import ("wasmImport"), or a host
\* function built by Function::new ("host").
Bodies == {"wasm", "wasmImport", "host"}

Functions ==
    [params  : SeqsUpTo(ResultTypes, MaxParams),
     results : SeqsUpTo(ResultTypes, MaxResults),
     body    : Bodies]

\* self.inner.call(&arguments), lines 212-216: the runtime refuses a
\* wrong number of arguments; an export returns values of its declared
\* results or traps; a trap returned by a host function ends the call that
\* reached it, and the runtime takes from a host function only values of its
\* declared result types.  (The import called by a "wasmImport" body has the
\* result types of the export.)  The outcome, whether the function was
\* entered, whether the host function was called and what it returned.
InnerCall(function, arguments, behaviour, trap) ==
    LET closure  == host_function(function.results, behaviour)
        declared == WasmResults(function.results)
        body     == IF trap THEN Err([exc |-> "RuntimeError", msg |-> "Trap"])
                    ELSE Ok(declared)
    IN  IF Len(arguments) # Len(function.params)
        THEN [ret |-> Err([exc |-> "RuntimeError", msg |-> "Signature"]),
              invoked |-> FALSE, closure |-> Ok(<<>>), bound |-> FALSE]
        ELSE IF function.body = "wasm"
        THEN [ret |-> body, invoked |-> TRUE, closure |-> Ok(<<>>),
              bound |-> FALSE]
        ELSE [ret |-> IF closure.status = "err" THEN closure
                      ELSE IF [k \in 1..Len(closure.value) |-> closure.value[k].ty]
                                # function.results
                      THEN Err([exc |-> "RuntimeError", msg |-> "WrongResults"])
                      ELSE IF function.body = "host" THEN closure
                      ELSE body,
              invoked |-> TRUE, closure |-> closure, bound |-> TRUE]

\* to_py_err::<PyRuntimeError, _>
ToPyRuntimeError(error) == Err([exc |-> "PyRuntimeError", from |-> error])

\* Function.__call__, lines 205-229.
FunctionCall(function, arguments, behaviour, trap) ==
    LET converted == ConvertZip(arguments, function.params)
    IN  IF converted.status = "err"
        THEN [ret |-> converted, invoked |-> FALSE, passed |-> <<>>,
              closure |-> Ok(<<>>), bound |-> FALSE]
        ELSE LET call == InnerCall(function, converted.value, behaviour, trap)
             IN  [ret     |-> IF call.ret.status = "err"
                              THEN ToPyRuntimeError(call.ret.error)
                              ELSE Ok(ResultObject(call.ret.value)),
                  invoked |-> call.invoked,
                  passed  |-> converted.value,
                  closure |-> call.closure,
                  bound   |-> call.bound]

CallIdle == [called |-> FALSE,
             function |-> [params |-> <<>>, results |-> <<>>, body |-> "wasm"],
             arguments |-> <<>>, behaviour |-> [does |-> "none"], trap |-> FALSE,
             out |-> [ret |-> Ok(PyNone), invoked |-> FALSE, passed |-> <<>>,
                      closure |-> Ok(<<>>), bound |-> FALSE]]

InitCall == fcall = CallIdle

\* A call of a Function object from the host.  An export that calls no
\* import has no host callable: its behaviour is left at "none"; a host
\* function has no wasm body that could trap on its own.
Call ==
    /\ ~fcall.called
    /\ \E function \in Functions,
          arguments \in SeqsUpTo(CallObjects, MaxParams + 1),
          behaviour \in Behaviours,
          trap \in BOOLEAN :
          /\ function.body = "wasm" => behaviour = [does |-> "none"]
          /\ function.body = "host" => ~trap
          /\ fcall' = [called |-> TRUE, function |-> function,
                       arguments |-> arguments, behaviour |-> behaviour,
                       trap |-> trap,
                       out |-> FunctionCall(function, arguments, behaviour, trap)]
    /\ UNCHANGED <<memory, view, mvOp, nOps, dyn, fnew>>

\* The caller has the outcome of the call.
CallEnd ==
    /\ fcall.called
    /\ fcall' = CallIdle
    /\ UNCHANGED <<memory, view, mvOp, nOps, dyn, fnew>>

NextCall == Call \/ CallEnd

---------------------------------------------------------------------------
(* Specifications *)

Init == InitView /\ InitDyn /\ InitNew /\ InitCall

\* One byte view at offset 0, for the specifications that make no use of it.
InitOneView == Init /\ view = [kind |-> "u8", offset |-> 0]

\* The memory views of one instance.
SpecView == Init /\ [][NextView]_vars

\* Calls through the export dispatcher.
SpecDyn == InitOneView /\ [][NextDyn]_vars

\* Registrations of host callables.
SpecNew == InitOneView /\ [][NextNew]_vars

\* Calls of Function objects.
SpecCall == InitOneView /\ [][NextCall]_vars

Next == NextView \/ NextDyn \/ NextNew \/ NextCall

Spec == Init /\ [][Next]_vars

---------------------------------------------------------------------------
(* Memory views: claims C3, C4, C5 *)

\* C3: every get(i) and set(i, v) with i >= length() fails with an
\* out-of-bounds error; no out-of-range index reaches an element.
C3_OutOfRangeIndexFails ==
    (/\ mvOp.op \in {"get", "set"}
     /\ ~(mvOp.len.status = "ok" /\ mvOp.index < mvOp.len.ret))
        => mvOp.status = "OutOfBounds"

\* C4: set(i, v) followed by get(i), for i < length() and v of the element
\* type, succeeds and returns v.
C4_SetThenGet ==
    (mvOp.op = "get" /\ mvOp.after.set /\ mvOp.after.below)
        => /\ mvOp.after.status = "ok"
           /\ mvOp.status = "ok"
           /\ mvOp.ret = mvOp.after.value

\* A 32-bit signed view, after the memory grew: a negative value written at
\* an index below length() and read back.
C4_Witness ==
    /\ view.kind = "i32"
    /\ mvOp.op = "get" /\ mvOp.status = "ok"
    /\ mvOp.after.set /\ mvOp.after.below /\ mvOp.after.value < 0
    /\ mvOp.ret = mvOp.after.value

\* C5: length() returns the number of elements of the view's width between
\* the view's offset and the end of the buffer at its current size (with
\* the offset read as a count of bytes or as a count of elements).
C5_LengthCountsElements ==
    (mvOp.op = "length" /\ mvOp.status = "ok")
        => \/ mvOp.ret = (mvOp.bytes - view.offset) \div SizeOf(view.kind)
           \/ mvOp.ret = (mvOp.bytes \div SizeOf(view.kind)) - view.offset

\* C11: a set(i, v) that succeeds leaves what get(j) returns unchanged for
\* every other index j that get() accepts: distinct indices address distinct
\* elements.
C11_SetLeavesOtherIndices ==
    [][(nOps' = nOps + 1 /\ mvOp'.op = "set" /\ mvOp'.status = "ok")
          => \A j \in 0..MaxIndex :
                (j # mvOp'.index /\ get(memory, view, j).status = "ok")
                    => get(memory', view, j) = get(memory, view, j)]_vars

---------------------------------------------------------------------------
(* The export dispatcher: claims C1, C2, C10 *)

\* C1: a call through call_dyn_func with n arguments for P declared
\* parameters, n # P, fails: with the missing-arguments error when n < P and
\* the extra-arguments error when n > P, carrying expected = P and given = n.
C1_ArityMismatchFails ==
    LET P == Len(dyn.params)
        n == Len(dyn.arguments)
    IN  (dyn.pc \notin {"idle", "arity"} /\ n # P)
            => /\ dyn.pc = "done"
               /\ dyn.ret.status = "err"
               /\ dyn.ret.error.exc = "RuntimeError"
               /\ dyn.ret.error.msg = (IF n < P THEN "Missing" ELSE "Extra")
               /\ dyn.ret.error.expect = P
               /\ dyn.ret.error.given = n

\* A function of two parameters called with one argument: expected 2, got 1.
C1_Witness ==
    /\ dyn.pc = "done"
    /\ Len(dyn.params) = 2 /\ Len(dyn.arguments) = 1
    /\ dyn.ret.status = "err"
    /\ dyn.ret.error.msg = "Missing"
    /\ dyn.ret.error.expect = 2 /\ dyn.ret.error.given = 1

\* C2: a call through call_dyn_func that completes without an error returns
\* None for no declared result, the value for one, and for R >= 2 the tuple
\* of the R values in declared order.
C2_ResultShape ==
    LET R      == Len(dyn.results)
        values == WasmResults(dyn.results)
    IN  (dyn.pc = "done" /\ dyn.ret.status = "ok")
            => dyn.ret.value =
                  (IF R = 0 THEN PyNone
                   ELSE IF R = 1 THEN ToObject(values[1])
                   ELSE [kind  |-> "tuple",
                         items |-> [k \in 1..R |-> ToObject(values[k])]])

\* C10: in a call through call_dyn_func the runtime function is invoked at
\* most once, only from the step after the arity check passed and every
\* argument was converted in order, position by position; a call that ends
\* with an arity error or a conversion error has not invoked it.
C10_InvokedOnlyAfterChecks ==
    /\ [](/\ dyn.invoked <= 1
          /\ \A k \in 1..Len(dyn.function_arguments) :
                /\ k <= Len(dyn.params) /\ k <= Len(dyn.arguments)
                /\ Coerce(dyn.params[k], dyn.arguments[k])
                      = Ok(dyn.function_arguments[k])
          /\ dyn.invoked = 1 =>
                /\ ArityCheck(Len(dyn.params), Len(dyn.arguments)).status = "ok"
                /\ Len(dyn.function_arguments) = Len(dyn.params)
                /\ \A k \in 1..Len(dyn.params) :
                      Coerce(dyn.params[k], dyn.arguments[k])
                          = Ok(dyn.function_arguments[k])
          /\ (/\ dyn.pc = "done"
              /\ dyn.ret.status = "err"
              /\ \/ dyn.ret.error.exc \in {"TypeError", "OverflowError"}
                 \/ dyn.ret.error.msg \in {"Missing", "Extra"})
                => dyn.invoked = 0)
    /\ [][/\ (dyn.pc # "done" /\ dyn'.invoked # dyn.invoked) =>
                dyn.pc = "invoke" /\ dyn'.invoked = dyn.invoked + 1
          /\ dyn'.pc = "coerce" =>
                /\ dyn.pc \in {"arity", "coerce"}
                /\ dyn.pc = "arity" => dyn'.function_arguments = <<>>
                /\ dyn.pc = "coerce" =>
                      /\ Len(dyn'.function_arguments)
                            = Len(dyn.function_arguments) + 1
                      /\ SubSeq(dyn'.function_arguments, 1,
                                Len(dyn.function_arguments))
                            = dyn.function_arguments
          /\ dyn'.pc = "invoke" => dyn.pc = "coerce"]_vars

\* A call with two parameters whose two arguments were converted and whose
\* function was invoked and returned.
C10_Witness ==
    /\ dyn.pc = "done"
    /\ Len(dyn.params) = 2
    /\ Len(dyn.function_arguments) = 2
    /\ dyn.invoked = 1
    /\ dyn.ret.status = "ok"

---------------------------------------------------------------------------
(* Function::new: claim C8 *)

\* The lookup as the claim has it: the host's native float type gives F64.
ClaimedType(token) ==
    CASE token \in {"i32", "I32", "<class 'int'>"} -> "I32"
      [] token \in {"i64", "I64"}                   -> "I64"
      [] token \in {"f32", "F32"}                   -> "F32"
      [] token \in {"f64", "F64", "<class 'float'>"} -> "F64"
      [] OTHER                                      -> "unsupported"

ClaimedTypes(entries) == [k \in 1..Len(entries) |-> ClaimedType(entries[k].value)]

IsParamEntry(entry) == ~IsReturn(entry.name)
IsReturnEntry(entry) == IsReturn(entry.name)

\* C8: without an explicit signature every annotation token goes through
\* the lookup of the claim; an unknown token fails the registration with an
\* error naming it; "return" gives the results, the others the parameters in
\* declaration order.
C8_AnnotationLookup ==
    LET dict == fnew.annotations.dict
        bad  == { k \in 1..Len(dict) : ClaimedType(dict[k].value) = "unsupported" }
    IN  (/\ fnew.called /\ fnew.callable
         /\ ~fnew.function_type.some /\ fnew.annotations.has)
            => IF bad # {}
               THEN /\ fnew.ret.status = "err"
                    /\ fnew.ret.error.msg = "NotSupported"
                    /\ \E k \in bad : fnew.ret.error.type = dict[k].value
               ELSE fnew.ret =
                       Ok([params  |-> ClaimedTypes(SelectSeq(dict, IsParamEntry)),
                           results |-> ClaimedTypes(SelectSeq(dict, IsReturnEntry))])

---------------------------------------------------------------------------
(* The import bridge and Function.__call__: claims C6, C7, C9 *)

\* Converting a value the callable returned to its declared result kind fails.
ReturnConversionFails(result_types, behaviour) ==
    \/ /\ behaviour.does = "tuple"
       /\ \E k \in 1..Len(behaviour.objects) :
             /\ k <= Len(result_types)
             /\ to_wasm_value(behaviour.objects[k], result_types[k]).status = "err"
    \/ /\ behaviour.does = "single"
       /\ result_types # <<>>
       /\ to_wasm_value(behaviour.object, result_types[1]).status = "err"

\* C6: when the runtime calls a host callable bound as an import and the
\* callable raises, or a value it returns does not convert to the declared
\* result kind, the binding returns a RuntimeError trap with a message, and
\* the host's outer call ends with the execution-trap error.
C6_HostFailureIsTrap ==
    (/\ fcall.called
     /\ fcall.out.bound
     /\ \/ fcall.behaviour.does = "raise"
        \/ ReturnConversionFails(fcall.function.results, fcall.behaviour))
        => /\ fcall.out.closure.status = "err"
           /\ fcall.out.closure.error.exc = "RuntimeError"
           /\ fcall.out.closure.error.msg = "Trap"
           /\ fcall.out.ret.status = "err"
           /\ fcall.out.ret.error.exc = "PyRuntimeError"
           /\ fcall.out.ret.error.from = fcall.out.closure.error

\* An export whose body calls an import; the host callable raises.
C6_Witness ==
    /\ fcall.called
    /\ fcall.function.body = "wasmImport"
    /\ fcall.out.bound
    /\ fcall.behaviour.does = "raise"
    /\ fcall.out.closure.status = "err"
    /\ fcall.out.ret.status = "err"

\* C7: when a binding with a non-empty declared result sequence is invoked
\* and the callable returns None, the invocation fails with a trap; it does
\* not return an empty result list.
C7_NoneIsResultArityTrap ==
    (/\ fcall.called
     /\ fcall.out.bound
     /\ fcall.behaviour.does = "none"
     /\ fcall.function.results # <<>>)
        => /\ fcall.out.closure.status = "err"
           /\ fcall.out.closure.error.exc = "RuntimeError"

\* C9: a call of a Function object with more arguments than declared
\* parameters fails and the function is not invoked.
C9_ExtraArgumentsFail ==
    (fcall.called /\ Len(fcall.arguments) > Len(fcall.function.params))
        => /\ fcall.out.ret.status = "err"
           /\ ~fcall.out.invoked

====
